---- MODULE Spec2Model ----
(***************************************************************************)
(* Model of the two console snake games of the repository:                 *)
(*   src/snakegame.c   the walled variant (POSIX and _WIN32 input branch)  *)
(*   src/snakegamee.c  the wrap-around variant (Windows console)           *)
(* One behaviour runs one of the two programs: `variant` is chosen by Init *)
(* and never changes, and the variables of the other program keep the      *)
(* values of their C initialisers.  Names are the source's; a name that    *)
(* both files define carries the suffix _e for snakegamee.c.               *)
(* C arrays are functions on 0..N-1, so indices are the source's indices.  *)
(***************************************************************************)
EXTENDS Integers, Sequences, FiniteSets, TLC

(* ------------------------------ bounds -------------------------------- *)
\* Grid of snakegame.c, scaled down from 40 x 20 (src/snakegame.c:28-29).
\* WIDTH >= 6 keeps the initial snake (x = WIDTH/2 - 3 .. WIDTH/2) on the grid.
WIDTH == 6
HEIGHT == 2
\* Grid of snakegamee.c, scaled down from 30 x 15 (src/snakegamee.c:7-8).
WIDTH_e == 4
HEIGHT_e == 2
\* Most key events one _kbhit() drain loop finds queued (snakegame.c, _WIN32).
MaxKeys == 2
\* Most bytes queued in the console input buffer at a process_input poll.
MaxQueue == 2
\* Most arrow keys pressed in a run of SpecTty (snakegame.c, POSIX terminal).
MaxArrows == 2

(* ------------------------- program constants -------------------------- *)
\* The grids and the length limit at the source's full size, for SpecScore.
FULL_WIDTH == 40
FULL_HEIGHT == 20
FULL_WIDTH_e == 30
FULL_HEIGHT_e == 15
FULL_MAX_LENGTH == 500
INITIAL_SNAKE_LEN == 4
\* Mutant of MAX_SNAKE: the array is one element short of the grid.
MAX_SNAKE_one_short == WIDTH * HEIGHT - 1
MAX_SNAKE == WIDTH * HEIGHT
\* snakegamee.c: MAX_LENGTH 500 on a grid of 30 * 15 = 450 cells.
MAX_LENGTH == WIDTH_e * HEIGHT_e + 50

Direction == {"UP", "DOWN", "LEFT", "RIGHT"}

\* typedef struct { int x, y; } Point;  /  Position
Point(a, b) == [x |-> a, y |-> b]

\* The exact opposite of a direction ("NONE" has none).
Opposite(d) ==
  CASE d = "UP" -> "DOWN"
    [] d = "DOWN" -> "UP"
    [] d = "LEFT" -> "RIGHT"
    [] d = "RIGHT" -> "LEFT"
    [] OTHER -> "NO_DIRECTION"

VARIABLES
  variant,      \* "walled" (snakegame.c) or "wrap" (snakegamee.c)
  platform,     \* snakegame.c build: "posix" or "win32"; "win32" for snakegamee.c
  pc,           \* position of the program in its main loop
  \* snakegame.c
  snake, snake_len, dir, orb, score, game_over, speed_ms,
  \* snakegamee.c
  snake_e, snake_length, food, current_dir, next_dir, dir_changed,
  score_e, game_running, paused, speed,
  \* history (not program state)
  prev_dir,     \* direction the previous executed tick applied, "NONE" before the first
  tick_result,  \* what the latest tick did: "none", "collided", "moved", "ate", "skipped"
  \* the console
  screen,       \* <<>> before the first frame, then <<the frame written last>>
  \* the POSIX terminal of snakegame.c, used by SpecTty only
  tty,          \* bytes waiting in the terminal's input buffer
  typed         \* bytes of the keys pressed that have not reached the buffer yet

walled_vars == <<snake, snake_len, dir, orb, score, game_over, speed_ms>>
wrap_vars == <<snake_e, snake_length, food, current_dir, next_dir, dir_changed,
               score_e, game_running, paused, speed>>
tty_vars == <<tty, typed>>
vars == <<variant, platform, pc, walled_vars, wrap_vars, prev_dir, tick_result,
          screen, tty_vars>>

(* ============================ snakegame.c ============================== *)

Grid == {Point(a, b) : a \in 0..(WIDTH - 1), b \in 0..(HEIGHT - 1)}

point_equals(a, b) == a.x = b.x /\ a.y = b.y

\* is_snake_at on the array s with length len
is_snake_at(s, len, x, y) == \E i \in 0..(len - 1) : s[i].x = x /\ s[i].y = y

\* Mutant of place_orb: the occupancy test stops one segment short of the tail.
place_orb_skips_tail(s, len) == {p \in Grid : ~is_snake_at(s, len - 1, p.x, p.y)}

\* place_orb: the cells the rejection loop can return; empty when it never returns.
place_orb(s, len) == {p \in Grid : ~is_snake_at(s, len, p.x, p.y)}

\* The snake array after init_game: snake[i] = (midx - i, midy); the rest of the
\* static array is zero.
init_snake ==
  [i \in 0..(MAX_SNAKE - 1) |->
     IF i < INITIAL_SNAKE_LEN THEN Point((WIDTH \div 2) - i, HEIGHT \div 2)
     ELSE Point(0, 0)]

\* update_logic: compute next head
next_head(h, d) ==
  CASE d = "UP" -> Point(h.x, h.y - 1)
    [] d = "DOWN" -> Point(h.x, h.y + 1)
    [] d = "LEFT" -> Point(h.x - 1, h.y)
    [] d = "RIGHT" -> Point(h.x + 1, h.y)

\* Mutant of wall_collision: the right and bottom tests are off by one.
wall_collision_off_by_one(n) == n.x < 0 \/ n.x > WIDTH \/ n.y < 0 \/ n.y > HEIGHT

wall_collision(n) == n.x < 0 \/ n.x >= WIDTH \/ n.y < 0 \/ n.y >= HEIGHT

\* Mutant of self_collision: the tail cell is not tested.
self_collision_skips_tail(s, len, n) == \E i \in 0..(len - 2) : point_equals(s[i], n)

self_collision(s, len, n) == \E i \in 0..(len - 1) : point_equals(s[i], n)

\* Mutant of shift_body: the loop runs upwards, so every segment gets the old head.
shift_body_ascending(s, len, n) ==
  [i \in DOMAIN s |-> IF i = 0 THEN n ELSE IF i <= len THEN s[0] ELSE s[i]]

\* for (i = snake_len; i > 0; --i) snake[i] = snake[i-1];  snake[0] = next;
shift_body(s, len, n) ==
  [i \in DOMAIN s |-> IF i = 0 THEN n ELSE IF i <= len THEN s[i - 1] ELSE s[i]]

\* Mutant of speed_step: the floor test lets the interval drop once more at 40.
speed_step_below_floor(s) == IF s >= 40 THEN s - 2 ELSE s

\* if (speed_ms > 40) speed_ms -= 2;
speed_step(s) == IF s > 40 THEN s - 2 ELSE s

(* ------------------------------ input --------------------------------- *)
\* Bytes a poll can read, as character codes:
\*   27 ESC, 91 '[', 65..68 'A'..'D', 119 'w', 115 's', 97 'a', 100 'd',
\*   113 'q', 120 'x' (any other key).
PosixBytes == {27, 91, 65, 66, 67, 68, 119, 115, 97, 100, 113, 120}

\* What the up to three getch_noblock() calls of one input_handling return:
\* -1 when no byte is ready.  c1 and c2 are read only after an ESC.
PosixPolls ==
  {<<c>> : c \in (PosixBytes \cup {-1}) \ {27}}
    \cup {<<27, c1, c2>> : c1 \in PosixBytes \cup {-1}, c2 \in PosixBytes \cup {-1}}

\* One key event of the Windows console: a character, or the prefix 224 and a
\* scan code (72 up, 80 down, 75 left, 77 right, 71 another extended key).
WinEvents ==
  {<<c>> : c \in {119, 115, 97, 100, 113, 120}}
    \cup {<<224, c2>> : c2 \in {72, 80, 75, 77, 71}}

\* The key events one drain loop finds queued.
WinPolls == UNION {[1..n -> WinEvents] : n \in 0..MaxKeys}

\* The letter keys, common to both branches.
letter_key(st, c) ==
  IF c = 119 \/ c = 87 THEN (IF st.dir # "DOWN" THEN [st EXCEPT !.dir = "UP"] ELSE st)
  ELSE IF c = 115 \/ c = 83 THEN (IF st.dir # "UP" THEN [st EXCEPT !.dir = "DOWN"] ELSE st)
  ELSE IF c = 97 \/ c = 65 THEN (IF st.dir # "RIGHT" THEN [st EXCEPT !.dir = "LEFT"] ELSE st)
  ELSE IF c = 100 \/ c = 68 THEN (IF st.dir # "LEFT" THEN [st EXCEPT !.dir = "RIGHT"] ELSE st)
  ELSE IF c = 113 \/ c = 81 THEN [st EXCEPT !.game_over = 1]
  ELSE st

\* POSIX branch of input_handling; st = [dir, game_over], in \in PosixPolls
input_handling_posix(st, in) ==
  IF in[1] = -1 THEN st
  ELSE IF in[1] = 27
       THEN IF in[2] = 91
            THEN IF in[3] = 65 /\ st.dir # "DOWN" THEN [st EXCEPT !.dir = "UP"]
                 ELSE IF in[3] = 66 /\ st.dir # "UP" THEN [st EXCEPT !.dir = "DOWN"]
                 ELSE IF in[3] = 67 /\ st.dir # "LEFT" THEN [st EXCEPT !.dir = "RIGHT"]
                 ELSE IF in[3] = 68 /\ st.dir # "RIGHT" THEN [st EXCEPT !.dir = "LEFT"]
                 ELSE st
            ELSE st
       ELSE letter_key(st, in[1])

\* One iteration of the _WIN32 drain loop; ev \in WinEvents
win_key(st, ev) ==
  IF ev[1] = 0 \/ ev[1] = 224
  THEN IF ev[2] = 72 /\ st.dir # "DOWN" THEN [st EXCEPT !.dir = "UP"]
       ELSE IF ev[2] = 80 /\ st.dir # "UP" THEN [st EXCEPT !.dir = "DOWN"]
       ELSE IF ev[2] = 75 /\ st.dir # "RIGHT" THEN [st EXCEPT !.dir = "LEFT"]
       ELSE IF ev[2] = 77 /\ st.dir # "LEFT" THEN [st EXCEPT !.dir = "RIGHT"]
       ELSE st
  ELSE letter_key(st, ev[1])

\* _WIN32 branch of input_handling: while (_kbhit()) { ... }
RECURSIVE input_handling_win(_, _)
input_handling_win(st, in) ==
  IF in = <<>> THEN st
  ELSE input_handling_win(win_key(st, Head(in)), Tail(in))

Polls(pf) == IF pf = "posix" THEN PosixPolls ELSE WinPolls

input_handling(pf, st, in) ==
  IF pf = "posix" THEN input_handling_posix(st, in) ELSE input_handling_win(st, in)

\* What one call of input_handling can leave in (dir, game_over), over every
\* input the keyboard can hold.
input_outcomes(pf, st) == {input_handling(pf, st, in) : in \in Polls(pf)}

(* --------------------------- main loop -------------------------------- *)
\* while (!game_over) { input_handling(); ...
main_input_handling ==
  /\ variant = "walled" /\ pc = "input_handling"
  /\ \E r \in input_outcomes(platform, [dir |-> dir, game_over |-> game_over]) :
       dir' = r.dir /\ game_over' = r.game_over
  /\ pc' = "update_logic"
  /\ UNCHANGED <<variant, platform, tty_vars, screen, snake, snake_len, orb, score, speed_ms,
                 wrap_vars, prev_dir, tick_result>>

\* update_logic(), reached from main's loop whatever game_over is
update_logic ==
  /\ variant = "walled" /\ pc = "update_logic"
  /\ prev_dir' = dir
  /\ LET next == next_head(snake[0], dir) IN
       IF wall_collision(next) \/ self_collision(snake, snake_len, next)
       THEN /\ game_over' = 1
            /\ tick_result' = "collided"
            /\ pc' = "draw"
            /\ UNCHANGED <<snake, snake_len, orb, score, speed_ms>>
       ELSE IF snake_len >= MAX_SNAKE
       THEN \* the shift writes snake[MAX_SNAKE], past the end of the array
            /\ pc' = "undefined"
            /\ tick_result' = "none"
            /\ UNCHANGED <<snake, snake_len, orb, score, speed_ms, game_over>>
       ELSE LET moved == shift_body(snake, snake_len, next) IN
            IF point_equals(next, orb)
            THEN LET len1 == IF snake_len + 1 > MAX_SNAKE THEN MAX_SNAKE
                             ELSE snake_len + 1
                     free == place_orb(moved, len1)
                 IN /\ snake' = moved
                    /\ snake_len' = len1
                    /\ score' = score + 10
                    /\ speed_ms' = speed_step(speed_ms)
                    /\ IF free = {}
                       THEN \* place_orb() never returns
                            orb' = orb /\ pc' = "place_orb" /\ tick_result' = "none"
                       ELSE orb' \in free /\ pc' = "draw" /\ tick_result' = "ate"
                    /\ UNCHANGED game_over
            ELSE /\ snake' = moved
                 /\ tick_result' = "moved"
                 /\ pc' = "draw"
                 /\ UNCHANGED <<snake_len, orb, score, speed_ms, game_over>>
  /\ UNCHANGED <<variant, platform, tty_vars, screen, dir, wrap_vars>>

\* Width and height of the frame, borders included.
fb_w == WIDTH + 2
fb_h == HEIGHT + 2

\* draw_to_buffer on the body s of length len and the orb o: the character at
\* column x, row y of framebuf, for every <<x, y>>.
draw_to_buffer(s, len, o) ==
  [c \in (0..(fb_w - 1)) \X (0..(fb_h - 1)) |->
     LET x == c[1]
         y == c[2]
         gx == x - 1
         gy == y - 1
     IN IF y = 0 \/ y = fb_h - 1 THEN "#"
        ELSE IF x = 0 \/ x = fb_w - 1 THEN "#"
        ELSE IF o.x = gx /\ o.y = gy THEN "*"
        ELSE IF s[0].x = gx /\ s[0].y = gy THEN "O"
        ELSE IF \E i \in 1..(len - 1) : s[i].x = gx /\ s[i].y = gy THEN "o"
        ELSE " "]

\* flush_buffer: the frame buffer and the numbers of the HUD line
flush_buffer(buf) ==
  [cells |-> buf, score |-> score, length |-> snake_len, speed |-> speed_ms]

\* draw_to_buffer(); flush_buffer(); msleep(speed_ms);
main_draw ==
  /\ variant = "walled" /\ pc = "draw"
  /\ screen' = <<flush_buffer(draw_to_buffer(snake, snake_len, orb))>>
  /\ pc' = "input_drain"
  /\ UNCHANGED <<variant, platform, tty_vars, walled_vars, wrap_vars, prev_dir, tick_result>>

\* Mutant of main_input_drain: the loop test is missing, the loop always goes on.
main_input_drain_no_loop_test ==
  /\ variant = "walled" /\ pc = "input_drain"
  /\ \E r \in input_outcomes(platform, [dir |-> dir, game_over |-> game_over]) :
       /\ dir' = r.dir /\ game_over' = r.game_over
       /\ pc' = "input_handling"
  /\ UNCHANGED <<variant, platform, tty_vars, screen, snake, snake_len, orb, score, speed_ms,
                 wrap_vars, prev_dir, tick_result>>

\* the second input_handling() of the loop body, then the loop test
main_input_drain ==
  /\ variant = "walled" /\ pc = "input_drain"
  /\ \E r \in input_outcomes(platform, [dir |-> dir, game_over |-> game_over]) :
       /\ dir' = r.dir /\ game_over' = r.game_over
       /\ pc' = IF r.game_over = 1 THEN "game_over" ELSE "input_handling"
  /\ UNCHANGED <<variant, platform, tty_vars, screen, snake, snake_len, orb, score, speed_ms,
                 wrap_vars, prev_dir, tick_result>>

\* after the loop: the final frame and the message
main_game_over ==
  /\ variant = "walled" /\ pc = "game_over"
  /\ screen' = <<flush_buffer(draw_to_buffer(snake, snake_len, orb))>>
  /\ pc' = "exit"
  /\ UNCHANGED <<variant, platform, tty_vars, walled_vars, wrap_vars, prev_dir, tick_result>>

(* ============================ snakegamee.c ============================= *)

Grid_e == {Point(a, b) : a \in 0..(WIDTH_e - 1), b \in 0..(HEIGHT_e - 1)}

\* Mutant of spawn_food: the occupancy loop starts at segment 1, not at the head.
spawn_food_skips_head(s, len) ==
  {p \in Grid_e : ~(\E i \in 1..(len - 1) : s[i].x = p.x /\ s[i].y = p.y)}

\* spawn_food: the cells the loop can leave in food; empty when it never ends.
spawn_food(s, len) ==
  {p \in Grid_e : ~(\E i \in 0..(len - 1) : s[i].x = p.x /\ s[i].y = p.y)}

\* The snake array after init_game; the rest of the static array is zero.
init_snake_e ==
  [i \in 0..(MAX_LENGTH - 1) |->
     IF i < 3 THEN Point((WIDTH_e \div 2) - i, HEIGHT_e \div 2) ELSE Point(0, 0)]

\* Bytes _getch() can return: 224 the extended-key prefix, the scan codes 72 up,
\* 80 down, 75 left, 77 right, 27 ESC, 32 SPACE, 120 'x' (any other key).
ConsoleBytes == {224, 72, 80, 75, 77, 27, 32, 120}

\* The bytes queued in the console input buffer when process_input polls.
ConsoleQueues == UNION {[1..n -> ConsoleBytes] : n \in 0..MaxQueue}

\* Mutant of arrow_key: the up and down keys are tested against the wrong direction.
arrow_key_wrong_opposite(cur, st, key) ==
  IF key = 72 /\ cur # "UP" THEN [st EXCEPT !.next_dir = "UP", !.dir_changed = 1]
  ELSE IF key = 80 /\ cur # "DOWN" THEN [st EXCEPT !.next_dir = "DOWN", !.dir_changed = 1]
  ELSE IF key = 75 /\ cur # "RIGHT" THEN [st EXCEPT !.next_dir = "LEFT", !.dir_changed = 1]
  ELSE IF key = 77 /\ cur # "LEFT" THEN [st EXCEPT !.next_dir = "RIGHT", !.dir_changed = 1]
  ELSE st

\* process_input: the switch on the scan code of an extended key
arrow_key(cur, st, key) ==
  IF key = 72 /\ cur # "DOWN" THEN [st EXCEPT !.next_dir = "UP", !.dir_changed = 1]
  ELSE IF key = 80 /\ cur # "UP" THEN [st EXCEPT !.next_dir = "DOWN", !.dir_changed = 1]
  ELSE IF key = 75 /\ cur # "RIGHT" THEN [st EXCEPT !.next_dir = "LEFT", !.dir_changed = 1]
  ELSE IF key = 77 /\ cur # "LEFT" THEN [st EXCEPT !.next_dir = "RIGHT", !.dir_changed = 1]
  ELSE st

\* process_input with the bytes q queued; cur = current_dir,
\* st = [next_dir, dir_changed, game_running, paused].  The first key is handled
\* and the rest of the queue is read and dropped; with dir_changed set nothing
\* is read at all.
process_input(cur, st, q) ==
  IF q # <<>> /\ st.dir_changed = 0
  THEN IF q[1] = 0 \/ q[1] = 224
       THEN IF Len(q) >= 2 THEN arrow_key(cur, st, q[2]) ELSE st
       ELSE IF q[1] = 27 THEN [st EXCEPT !.game_running = 0]
       ELSE IF q[1] = 32 THEN [st EXCEPT !.paused = 1 - st.paused]
       ELSE st
  ELSE st

process_input_outcomes(cur, st) == {process_input(cur, st, q) : q \in ConsoleQueues}

\* if (speed > 50) speed -= 2;
speed_step_e(s) == IF s > 50 THEN s - 2 ELSE s

\* Mutant of wrap_head: a head leaving on the left or top lands one cell too far.
wrap_head_off_by_one(p) ==
  LET x1 == IF p.x < 0 THEN WIDTH_e ELSE p.x
      x2 == IF x1 > WIDTH_e THEN 0 ELSE x1
      y1 == IF p.y < 0 THEN HEIGHT_e ELSE p.y
      y2 == IF y1 > HEIGHT_e THEN 0 ELSE y1
  IN Point(x2, y2)

\* move_snake: the four edge tests, in the source's order
wrap_head(p) ==
  LET x1 == IF p.x < 0 THEN WIDTH_e - 1 ELSE p.x
      x2 == IF x1 >= WIDTH_e THEN 0 ELSE x1
      y1 == IF p.y < 0 THEN HEIGHT_e - 1 ELSE p.y
      y2 == IF y1 >= HEIGHT_e THEN 0 ELSE y1
  IN Point(x2, y2)

\* for (i = snake_length - 1; i > 0; i--) snake[i] = snake[i-1];  snake[0] = new_head;
shift_body_e(s, len, n) ==
  [i \in DOMAIN s |-> IF i = 0 THEN n ELSE IF i <= len - 1 THEN s[i - 1] ELSE s[i]]

check_collision(s, len) ==
  \E i \in 1..(len - 1) : s[0].x = s[i].x /\ s[0].y = s[i].y

\* while (game_running) { process_input(); ...
game_loop_process_input ==
  /\ variant = "wrap" /\ pc = "process_input"
  /\ \E r \in process_input_outcomes(current_dir,
                [next_dir |-> next_dir, dir_changed |-> dir_changed,
                 game_running |-> game_running, paused |-> paused]) :
       /\ next_dir' = r.next_dir /\ dir_changed' = r.dir_changed
       /\ game_running' = r.game_running /\ paused' = r.paused
  /\ pc' = "move_snake"
  /\ UNCHANGED <<variant, platform, tty_vars, screen, walled_vars, snake_e, snake_length, food,
                 current_dir, score_e, speed, prev_dir, tick_result>>

\* move_snake(), reached from game_loop whatever game_running is
move_snake ==
  /\ variant = "wrap" /\ pc = "move_snake"
  /\ IF paused # 0
     THEN /\ tick_result' = "skipped"
          /\ pc' = "draw_game"
          /\ UNCHANGED wrap_vars
     ELSE LET moved == shift_body_e(snake_e, snake_length,
                                    wrap_head(next_head(snake_e[0], next_dir)))
          IN /\ current_dir' = next_dir
             /\ dir_changed' = 0
             /\ snake_e' = moved
             /\ UNCHANGED <<next_dir, paused>>
             /\ IF check_collision(moved, snake_length)
                THEN /\ game_running' = 0
                     /\ tick_result' = "collided"
                     /\ pc' = "draw_game"
                     /\ UNCHANGED <<snake_length, food, score_e, speed>>
                ELSE IF moved[0].x = food.x /\ moved[0].y = food.y
                THEN LET grow == snake_length < MAX_LENGTH
                         len1 == IF grow THEN snake_length + 1 ELSE snake_length
                         free == spawn_food(moved, len1)
                     IN /\ snake_length' = len1
                        /\ score_e' = IF grow THEN score_e + 10 ELSE score_e
                        /\ speed' = IF grow THEN speed_step_e(speed) ELSE speed
                        /\ IF free = {}
                           THEN \* spawn_food() never returns
                                food' = food /\ pc' = "spawn_food" /\ tick_result' = "none"
                           ELSE food' \in free /\ pc' = "draw_game" /\ tick_result' = "ate"
                        /\ UNCHANGED game_running
                ELSE /\ tick_result' = "moved"
                     /\ pc' = "draw_game"
                     /\ UNCHANGED <<snake_length, food, score_e, speed, game_running>>
  /\ UNCHANGED <<variant, platform, tty_vars, screen, walled_vars, prev_dir>>

\* Mutant of draw_game: a cell holding the head and another segment shows the
\* segment.
draw_game_body_over_head(s, len, f) ==
  [cells |->
     [c \in (0..(WIDTH_e + 1)) \X (0..(HEIGHT_e + 1)) |->
        LET x == c[1] - 1
            y == c[2] - 1
        IN IF c[2] = 0 \/ c[2] = HEIGHT_e + 1 THEN "#"
           ELSE IF c[1] = 0 \/ c[1] = WIDTH_e + 1 THEN "#"
           ELSE IF \E i \in 1..(len - 1) : s[i].x = x /\ s[i].y = y THEN "o"
           ELSE IF s[0].x = x /\ s[0].y = y THEN "O"
           ELSE IF f.x = x /\ f.y = y THEN "*"
           ELSE " "],
   score |-> score_e, length |-> len, paused |-> paused]

\* draw_game on the body s of length len and the food f: the character at
\* column c[1], row c[2] of the text written (row 0 and row HEIGHT + 1 are the
\* lines of WIDTH + 2 '#', every other row is '#', WIDTH cells, '#'), and the
\* numbers of the status line.
draw_game(s, len, f) ==
  [cells |->
     [c \in (0..(WIDTH_e + 1)) \X (0..(HEIGHT_e + 1)) |->
        LET x == c[1] - 1
            y == c[2] - 1
        IN IF c[2] = 0 \/ c[2] = HEIGHT_e + 1 THEN "#"
           ELSE IF c[1] = 0 \/ c[1] = WIDTH_e + 1 THEN "#"
           ELSE IF s[0].x = x /\ s[0].y = y THEN "O"
           ELSE IF \E i \in 1..(len - 1) : s[i].x = x /\ s[i].y = y THEN "o"
           ELSE IF f.x = x /\ f.y = y THEN "*"
           ELSE " "],
   score |-> score_e, length |-> len, paused |-> paused]

\* Mutant of game_loop_draw: the frame is written only while the game runs.
game_loop_draw_skips_last_frame ==
  /\ variant = "wrap" /\ pc = "draw_game"
  /\ screen' = IF game_running # 0 THEN <<draw_game(snake_e, snake_length, food)>>
               ELSE screen
  /\ pc' = IF game_running # 0 THEN "process_input" ELSE "cleanup"
  /\ UNCHANGED <<variant, platform, tty_vars, walled_vars, wrap_vars, prev_dir, tick_result>>

\* draw_game(); Sleep(actual_speed); then the loop test
game_loop_draw ==
  /\ variant = "wrap" /\ pc = "draw_game"
  /\ screen' = <<draw_game(snake_e, snake_length, food)>>
  /\ pc' = IF game_running # 0 THEN "process_input" ELSE "cleanup"
  /\ UNCHANGED <<variant, platform, tty_vars, walled_vars, wrap_vars, prev_dir, tick_result>>

(* ============================ initial states =========================== *)

\* The statics of snakegame.c before its init_game runs (src/snakegame.c:43-49).
walled_statics ==
  /\ snake = [i \in 0..(MAX_SNAKE - 1) |-> Point(0, 0)]
  /\ snake_len = 0
  /\ dir = "UP" /\ orb = Point(0, 0)
  /\ score = 0 /\ game_over = 0 /\ speed_ms = 0

\* snakegamee.c after setup_console() and init_game()
init_game_e ==
  /\ variant = "wrap"
  /\ platform = "win32"
  /\ pc = "process_input"
  /\ snake_e = init_snake_e
  /\ snake_length = 3
  /\ current_dir = "RIGHT" /\ next_dir = "RIGHT" /\ dir_changed = 0
  /\ score_e = 0 /\ game_running = 1 /\ paused = 0 /\ speed = 100
  /\ food \in spawn_food(init_snake_e, 3)
  /\ prev_dir = "NONE" /\ tick_result = "none"
  /\ screen = <<>>
  /\ walled_statics

\* The statics of snakegamee.c before its init_game runs (src/snakegamee.c:23-32).
wrap_statics ==
  /\ snake_e = [i \in 0..(MAX_LENGTH - 1) |-> Point(0, 0)]
  /\ snake_length = 3
  /\ food = Point(0, 0)
  /\ current_dir = "RIGHT" /\ next_dir = "RIGHT" /\ dir_changed = 0
  /\ score_e = 0 /\ game_running = 1 /\ paused = 0 /\ speed = 100

\* snakegame.c after init_game() and the Enter wait
init_game ==
  /\ variant = "walled"
  /\ platform \in {"posix", "win32"}
  /\ pc = "input_handling"
  /\ snake = init_snake
  /\ snake_len = INITIAL_SNAKE_LEN
  /\ dir = "RIGHT" /\ score = 0 /\ game_over = 0 /\ speed_ms = 120
  /\ orb \in place_orb(init_snake, INITIAL_SNAKE_LEN)
  /\ prev_dir = "NONE" /\ tick_result = "none"
  /\ screen = <<>>
  /\ wrap_statics

\* The specifications below draw what a poll reads afresh at every poll and
\* keep no terminal buffer.
no_tty == tty = <<>> /\ typed = <<>>

Init == (init_game \/ init_game_e) /\ no_tty

Next ==
  \/ main_input_handling
  \/ update_logic
  \/ main_draw
  \/ main_input_drain
  \/ main_game_over
  \/ game_loop_process_input
  \/ move_snake
  \/ game_loop_draw

Spec == Init /\ [][Next]_vars

\* One program at a time.
NextWalled ==
  \/ main_input_handling
  \/ update_logic
  \/ main_draw
  \/ main_input_drain
  \/ main_game_over

NextWrap ==
  \/ game_loop_process_input
  \/ move_snake
  \/ game_loop_draw

InitWalled == init_game /\ no_tty
InitWrap == init_game_e /\ no_tty

SpecWalled == InitWalled /\ [][NextWalled]_vars
SpecWrap == InitWrap /\ [][NextWrap]_vars

(* ------------- snakegame.c on a POSIX terminal, byte by byte ----------- *)
\* The three bytes a terminal sends for an arrow key: ESC '[' 'A'..'D'.
ArrowSequences == {<<27, 91, f>> : f \in {65, 66, 67, 68}}

\* The bytes of n arrow keys pressed one after the other.
RECURSIVE arrow_bytes(_)
arrow_bytes(n) ==
  IF n = 0 THEN {<<>>}
  ELSE {s \o t : s \in ArrowSequences, t \in arrow_bytes(n - 1)}

\* getch_noblock on the buffer buf: the byte read, -1 when none is ready.
getch_noblock(buf) == IF buf = <<>> THEN -1 ELSE Head(buf)

\* The buffer after one getch_noblock.
after_getch(buf) == IF buf = <<>> THEN buf ELSE Tail(buf)

\* The getch_noblock calls of one input_handling on the buffer buf: the values
\* they return (c alone, or ESC, c1, c2) and the bytes left in the buffer.
posix_read(buf) ==
  IF getch_noblock(buf) # 27
  THEN [in |-> <<getch_noblock(buf)>>, rest |-> after_getch(buf)]
  ELSE LET b1 == after_getch(buf)
           b2 == after_getch(b1)
       IN [in |-> <<27, getch_noblock(b1), getch_noblock(b2)>>,
           rest |-> after_getch(b2)]

\* The next byte of the keys pressed reaches the terminal buffer; it does so
\* at any time, seen by the program at its next poll.
tty_arrive ==
  /\ variant = "walled" /\ platform = "posix"
  /\ pc \in {"input_handling", "input_drain"}
  /\ typed # <<>>
  /\ tty' = Append(tty, Head(typed))
  /\ typed' = Tail(typed)
  /\ UNCHANGED <<variant, platform, pc, walled_vars, wrap_vars, prev_dir, tick_result,
                 screen>>

\* input_handling() at the top of the loop body, reading the terminal buffer
tty_input_handling ==
  /\ variant = "walled" /\ platform = "posix" /\ pc = "input_handling"
  /\ LET rd == posix_read(tty)
         r == input_handling_posix([dir |-> dir, game_over |-> game_over], rd.in)
     IN dir' = r.dir /\ game_over' = r.game_over /\ tty' = rd.rest
  /\ pc' = "update_logic"
  /\ UNCHANGED <<variant, platform, snake, snake_len, orb, score, speed_ms,
                 wrap_vars, prev_dir, tick_result, screen, typed>>

\* the second input_handling() of the loop body, then the loop test
tty_input_drain ==
  /\ variant = "walled" /\ platform = "posix" /\ pc = "input_drain"
  /\ LET rd == posix_read(tty)
         r == input_handling_posix([dir |-> dir, game_over |-> game_over], rd.in)
     IN /\ dir' = r.dir /\ game_over' = r.game_over /\ tty' = rd.rest
        /\ pc' = IF r.game_over = 1 THEN "game_over" ELSE "input_handling"
  /\ UNCHANGED <<variant, platform, snake, snake_len, orb, score, speed_ms,
                 wrap_vars, prev_dir, tick_result, screen, typed>>

\* snakegame.c after init_game(), with up to MaxArrows arrow keys to be pressed
init_tty ==
  /\ init_game
  /\ platform = "posix"
  /\ tty = <<>>
  /\ typed \in UNION {arrow_bytes(n) : n \in 1..MaxArrows}

NextTty ==
  \/ tty_arrive
  \/ tty_input_handling
  \/ update_logic
  \/ main_draw
  \/ tty_input_drain
  \/ main_game_over

SpecTty == init_tty /\ [][NextTty]_vars

(* ------------- score, length and interval at the full size ------------- *)
\* The counters of the two programs over as many consumptions as the full-size
\* grids allow; the geometry is left out, so every tick may be a consumption
\* as long as a cell is left for the item.

\* update_logic's branch for a head on the orb, on the counters alone
update_logic_consume ==
  /\ variant = "walled"
  /\ snake_len < FULL_WIDTH * FULL_HEIGHT
  /\ snake_len' = IF snake_len + 1 > FULL_WIDTH * FULL_HEIGHT
                  THEN FULL_WIDTH * FULL_HEIGHT ELSE snake_len + 1
  /\ score' = score + 10
  /\ speed_ms' = speed_step(speed_ms)
  /\ UNCHANGED <<variant, platform, pc, snake, dir, orb, game_over, wrap_vars,
                 prev_dir, tick_result, screen, tty_vars>>

\* move_snake's branch for a head on the food, on the counters alone
move_snake_consume ==
  /\ variant = "wrap"
  /\ snake_length < FULL_WIDTH_e * FULL_HEIGHT_e
  /\ LET grow == snake_length < FULL_MAX_LENGTH
     IN /\ snake_length' = IF grow THEN snake_length + 1 ELSE snake_length
        /\ score_e' = IF grow THEN score_e + 10 ELSE score_e
        /\ speed' = IF grow THEN speed_step_e(speed) ELSE speed
  /\ UNCHANGED <<variant, platform, pc, walled_vars, snake_e, food, current_dir,
                 next_dir, dir_changed, game_running, paused,
                 prev_dir, tick_result, screen, tty_vars>>

NextScore == update_logic_consume \/ move_snake_consume

SpecScore == Init /\ [][NextScore]_vars

(* =============================== claims ================================ *)

\* The unit vector of a direction, as the specification's unitVector.
unitVector(d) ==
  CASE d = "UP" -> Point(0, -1)
    [] d = "DOWN" -> Point(0, 1)
    [] d = "LEFT" -> Point(-1, 0)
    [] d = "RIGHT" -> Point(1, 0)

\* A step that is one call of update_logic (snakegame.c).
WalledTick == variant = "walled" /\ pc = "update_logic" /\ pc' # pc

\* A step that is one call of move_snake which is not skipped by the pause
\* (snakegamee.c).
WrapTick == variant = "wrap" /\ pc = "move_snake" /\ pc' # pc /\ paused = 0

\* C1: in snakegame.c the direction update_logic uses for a tick is never the
\* exact opposite of the direction the previous tick used, whatever keys the
\* input_handling calls between the two ticks read.
C1_NoReversalApplied ==
  (variant = "walled" /\ pc = "update_logic") => dir # Opposite(prev_dir)

\* C2: in snakegamee.c the direction move_snake commits (current_dir = next_dir)
\* is never the exact opposite of the direction the previous executed tick
\* committed, for every sequence of keys, keys pressed while paused included.
C2_NoReversalCommitted ==
  [][WrapTick => current_dir' # Opposite(current_dir)]_vars

\* snakegamee.c has committed a turn: the head has just left the row of the body.
C2_Witness ==
  /\ variant = "wrap" /\ pc = "draw_game"
  /\ tick_result = "moved"
  /\ current_dir = "UP"
  /\ snake_e[1].y = snake_e[2].y

\* C3: in both programs a tick that neither collides nor lands on the item
\* leaves the length unchanged, puts the head on the old head plus the unit
\* vector of the applied direction (modulo the grid in snakegamee.c), and
\* makes every segment i >= 1 the old segment i - 1.
C3_PlainMove ==
  [][/\ (WalledTick /\ tick_result' = "moved")
          => /\ snake_len' = snake_len
             /\ snake'[0] = Point(snake[0].x + unitVector(dir).x,
                                  snake[0].y + unitVector(dir).y)
             /\ \A i \in 1..(snake_len' - 1) : snake'[i] = snake[i - 1]
     /\ (WrapTick /\ tick_result' = "moved")
          => /\ snake_length' = snake_length
             /\ snake_e'[0] =
                  Point((snake_e[0].x + unitVector(current_dir').x) % WIDTH_e,
                        (snake_e[0].y + unitVector(current_dir').y) % HEIGHT_e)
             /\ \A i \in 1..(snake_length' - 1) : snake_e'[i] = snake_e[i - 1]
    ]_vars

\* snakegamee.c has made a plain move across the right edge of the grid.
C3_Witness ==
  /\ variant = "wrap" /\ pc = "draw_game" /\ tick_result = "moved"
  /\ current_dir = "RIGHT"
  /\ snake_e[0].x = 0 /\ snake_e[1].x = WIDTH_e - 1

\* C4: in both programs a tick whose new head lands on the item without
\* colliding (and whose placement call returns) grows the length by exactly 1
\* and the score by exactly 10, and moves the item to a cell of the grid that
\* differs from its old cell and holds no segment of the new body.
C4_Consumption ==
  [][/\ (WalledTick /\ tick_result' = "ate")
          => /\ snake_len' = snake_len + 1
             /\ score' = score + 10
             /\ orb' # orb
             /\ orb' \in Grid
             /\ \A i \in 0..(snake_len' - 1) : snake'[i] # orb'
     /\ (WrapTick /\ tick_result' = "ate")
          => /\ snake_length' = snake_length + 1
             /\ score_e' = score_e + 10
             /\ food' # food
             /\ food' \in Grid_e
             /\ \A i \in 0..(snake_length' - 1) : snake_e'[i] # food'
    ]_vars

\* snakegame.c has eaten twice: the second orb was placed against a grown body.
C4_Witness ==
  /\ variant = "walled" /\ pc = "draw" /\ tick_result = "ate"
  /\ snake_len = INITIAL_SNAKE_LEN + 2 /\ score = 20

\* C5: in each program a consumption tick keeps the tail: the body after the
\* tick is the new head followed by every segment of the body before the tick,
\* in order, so the segment added is the cell the old tail occupied.
C5_GrowthKeepsTail ==
  [][/\ (WalledTick /\ tick_result' = "ate")
          => /\ snake'[0] = orb
             /\ \A i \in 1..snake_len : snake'[i] = snake[i - 1]
     /\ (WrapTick /\ tick_result' = "ate")
          => /\ snake_e'[0] = food
             /\ \A i \in 1..snake_length : snake_e'[i] = snake_e[i - 1]
    ]_vars

\* C6: in snakegame.c, in every reachable state, the segments
\* snake[0..snake_len-1] are pairwise distinct cells inside the grid.
C6_WalledBodyDistinctInGrid ==
  variant = "walled" =>
    /\ \A i \in 0..(snake_len - 1) : snake[i] \in Grid
    /\ \A i, j \in 0..(snake_len - 1) : i # j => snake[i] # snake[j]

\* snakegame.c has grown by two segments and turned.
C6_Witness ==
  /\ variant = "walled" /\ tick_result = "ate"
  /\ snake_len >= INITIAL_SNAKE_LEN + 2
  /\ snake[0].y # snake[snake_len - 1].y

\* C7: in snakegamee.c, in every reachable state with game_running = 1, the
\* segments snake[0..snake_length-1] are pairwise distinct cells, the state
\* right after a tick that consumed food included.
C7_WrapBodyDistinct ==
  (variant = "wrap" /\ game_running = 1) =>
    \A i, j \in 0..(snake_length - 1) : i # j => snake_e[i] # snake_e[j]

\* C8: in both programs, in every reachable state in which the program is not
\* inside a placement call that never returns, the item is inside the grid and
\* on no cell that a segment of the snake occupies.
C8_ItemOffSnake ==
  /\ (variant = "walled" /\ pc # "place_orb")
       => /\ orb \in Grid
          /\ \A i \in 0..(snake_len - 1) : snake[i] # orb
  /\ (variant = "wrap" /\ pc # "spawn_food")
       => /\ food \in Grid_e
          /\ \A i \in 0..(snake_length - 1) : snake_e[i] # food

\* snakegamee.c right after a consumption tick: the food was placed anew.
C8_Witness ==
  /\ variant = "wrap" /\ pc = "draw_game" /\ tick_result = "ate"
  /\ snake_length = 5

\* C9: in snakegame.c update_logic sets game_over exactly when the next head
\* cell is outside the grid on one of the four sides or equals one of the
\* snake_len current segments, and such a tick leaves the snake array,
\* snake_len, score, orb and speed_ms unchanged.
C9_CollisionRule ==
  [][WalledTick =>
       LET nx == snake[0].x + unitVector(dir).x
           ny == snake[0].y + unitVector(dir).y
           collides == \/ nx < 0 \/ nx >= WIDTH \/ ny < 0 \/ ny >= HEIGHT
                       \/ \E i \in 0..(snake_len - 1) :
                            snake[i].x = nx /\ snake[i].y = ny
       IN /\ game_over' = (IF collides THEN 1 ELSE game_over)
          /\ collides => UNCHANGED <<snake, snake_len, score, orb, speed_ms>>
    ]_vars

\* update_logic has ended the game on the cell the tail occupied.
C9_Witness ==
  /\ variant = "walled" /\ pc = "draw" /\ tick_result = "collided"
  /\ game_over = 1
  /\ Point(snake[0].x + unitVector(dir).x, snake[0].y + unitVector(dir).y)
       = snake[snake_len - 1]

\* C10: in snakegamee.c a tick whose next head would leave the grid puts the
\* head on the opposite edge of the same row or column, crossing an edge ends
\* the game only when the head then lies on another segment, and the head is
\* inside the grid after every tick.
C10_WrapAround ==
  [][WrapTick =>
       LET nx == snake_e[0].x + unitVector(next_dir).x
           ny == snake_e[0].y + unitVector(next_dir).y
           crosses == nx < 0 \/ nx >= WIDTH_e \/ ny < 0 \/ ny >= HEIGHT_e
       IN /\ nx < 0 => snake_e'[0] = Point(WIDTH_e - 1, ny)
          /\ nx >= WIDTH_e => snake_e'[0] = Point(0, ny)
          /\ ny < 0 => snake_e'[0] = Point(nx, HEIGHT_e - 1)
          /\ ny >= HEIGHT_e => snake_e'[0] = Point(nx, 0)
          /\ (crosses /\ game_running' # game_running)
               => \E i \in 1..(snake_length - 1) : snake_e'[i] = snake_e'[0]
          /\ snake_e'[0] \in Grid_e
    ]_vars

\* snakegamee.c has crossed the left edge and is still running.
C10_Witness ==
  /\ variant = "wrap" /\ pc = "draw_game" /\ tick_result = "moved"
  /\ current_dir = "LEFT" /\ game_running = 1
  /\ snake_e[0].x = WIDTH_e - 1 /\ snake_e[1].x = 0

\* C11: in snakegamee.c, whenever the wrapped next head cell equals a cell that
\* a segment snake[0..snake_length-1] occupies before the tick, the cell of the
\* current tail included, the tick clears game_running.
C11_BodyCellEndsGame ==
  [][WrapTick =>
       LET nx == (snake_e[0].x + unitVector(next_dir).x + WIDTH_e) % WIDTH_e
           ny == (snake_e[0].y + unitVector(next_dir).y + HEIGHT_e) % HEIGHT_e
       IN (\E i \in 0..(snake_length - 1) :
             snake_e[i].x = nx /\ snake_e[i].y = ny)
            => game_running' = 0
    ]_vars

\* C12: in both programs every call of the placement routine returns: a tick
\* that consumes the item, and so calls place_orb / spawn_food, leaves at least
\* one cell of the grid that holds no segment, which the rejection loop needs in
\* order to end under any fair choice of candidates; the tick after which the
\* snake covers the whole grid is included.
C12_PlacementReturns ==
  [][/\ (WalledTick /\ score' # score) => place_orb(snake', snake_len') # {}
     /\ (WrapTick /\ score_e' # score_e) => spawn_food(snake_e', snake_length') # {}
    ]_vars

\* C13: in snakegamee.c, whenever the loop is about to call process_input
\* while paused, a SPACE waiting in the console queue is consumed by that call
\* and clears paused, and an ESC waiting there is consumed and clears
\* game_running, whatever keys were pressed earlier during the pause.
C13_PausedKeysConsumed ==
  (variant = "wrap" /\ pc = "process_input" /\ paused = 1) =>
    LET st == [next_dir |-> next_dir, dir_changed |-> dir_changed,
               game_running |-> game_running, paused |-> paused]
    IN /\ process_input(current_dir, st, <<32>>).paused = 0
       /\ process_input(current_dir, st, <<27>>).game_running = 0

\* The direction an extended-key scan code asks for.
scanDirection(key) ==
  CASE key = 72 -> "UP" [] key = 80 -> "DOWN" [] key = 75 -> "LEFT" [] key = 77 -> "RIGHT"

\* C14: in snakegamee.c, whenever process_input polls with two arrow keys
\* queued, the direction it leaves in next_dir, which the following tick
\* applies, is the one of the last queued key that does not reverse
\* current_dir, not the one of an earlier key.
C14_LastValidKeyApplied ==
  (variant = "wrap" /\ pc = "process_input" /\ dir_changed = 0) =>
    \A k1, k2 \in {72, 80, 75, 77} :
      LET st == [next_dir |-> next_dir, dir_changed |-> dir_changed,
                 game_running |-> game_running, paused |-> paused]
          last == IF scanDirection(k2) # Opposite(current_dir) THEN scanDirection(k2)
                  ELSE IF scanDirection(k1) # Opposite(current_dir) THEN scanDirection(k1)
                  ELSE next_dir
      IN process_input(current_dir, st, <<224, k1, 224, k2>>).next_dir = last

\* A step that is one call of input_handling reading the terminal buffer.
TtyPoll == pc \in {"input_handling", "input_drain"} /\ pc' # pc

\* C15: in the POSIX branch of snakegame.c, when only arrow keys are pressed and
\* their bytes ESC '[' final reach the program split in any way over successive
\* polls, a poll changes dir or game_over only when it reads the three bytes of
\* one sequence together: bytes left over from an incomplete sequence change
\* neither.
C15_LeftoverBytesInert ==
  [][(TtyPoll /\ (dir' # dir \/ game_over' # game_over))
        => /\ Len(tty) >= 3
           /\ <<tty[1], tty[2], tty[3]>> \in ArrowSequences
    ]_vars

\* C16: in both programs, once a tick has set the terminal flag because of a
\* collision (game_over = 1 in snakegame.c, game_running = 0 in snakegamee.c),
\* no later step changes the segments, the length, the score, the item or the
\* tick interval.
C16_CollisionFreezesGame ==
  [][/\ (variant = "walled" /\ tick_result = "collided" /\ game_over = 1)
          => UNCHANGED <<snake, snake_len, score, orb, speed_ms>>
     /\ (variant = "wrap" /\ tick_result = "collided" /\ game_running = 0)
          => UNCHANGED <<snake_e, snake_length, score_e, food, speed>>
    ]_vars

\* snakegame.c has left its loop after a collision, and the poll that followed
\* the collision read a turn.
C16_Witness ==
  /\ variant = "walled" /\ pc = "exit"
  /\ tick_result = "collided" /\ game_over = 1
  /\ dir # prev_dir /\ dir # Opposite(prev_dir)

\* C17: in both programs a run that has ended by a collision or by a quit key
\* has written a frame after the last change of the game state: when the loop
\* has been left, the frame on the screen is the one the final snake, item and
\* score give.
C17_FinalFrameShown ==
  /\ (variant = "walled" /\ pc \in {"game_over", "exit"})
       => screen = <<[cells |-> draw_to_buffer(snake, snake_len, orb),
                      score |-> score, length |-> snake_len, speed |-> speed_ms]>>
  /\ (variant = "wrap" /\ pc = "cleanup")
       => screen = <<draw_game(snake_e, snake_length, food)>>

\* snakegamee.c has ended by ESC, and the tick that followed the key ate.
C17_Witness ==
  /\ variant = "wrap" /\ pc = "cleanup"
  /\ tick_result = "ate" /\ game_running = 0
  /\ screen # <<>> /\ screen[1].score = score_e /\ score_e >= 10

\* The character of a frame cell by the precedence border, item, head, body.
precedence(border, item, head, body) ==
  IF border THEN "#" ELSE IF item THEN "*" ELSE IF head THEN "O"
  ELSE IF body THEN "o" ELSE " "

\* C18: in both programs every frame written has WIDTH + 2 columns and
\* HEIGHT + 2 rows, and each of its cells shows '#' on the border, else '*' on
\* the item's cell, else 'O' on the head's cell, else 'o' on the cell of another
\* segment, else ' '.
C18_CellPrecedence ==
  [][/\ (variant = "walled" /\ pc \in {"draw", "game_over"} /\ pc' # pc)
          => /\ DOMAIN screen'[1].cells = (0..(WIDTH + 1)) \X (0..(HEIGHT + 1))
             /\ \A c \in DOMAIN screen'[1].cells :
                  screen'[1].cells[c] =
                    precedence(c[1] \in {0, WIDTH + 1} \/ c[2] \in {0, HEIGHT + 1},
                               orb = Point(c[1] - 1, c[2] - 1),
                               snake[0] = Point(c[1] - 1, c[2] - 1),
                               \E i \in 1..(snake_len - 1) :
                                  snake[i] = Point(c[1] - 1, c[2] - 1))
     /\ (variant = "wrap" /\ pc = "draw_game" /\ pc' # pc)
          => /\ DOMAIN screen'[1].cells = (0..(WIDTH_e + 1)) \X (0..(HEIGHT_e + 1))
             /\ \A c \in DOMAIN screen'[1].cells :
                  screen'[1].cells[c] =
                    precedence(c[1] \in {0, WIDTH_e + 1} \/ c[2] \in {0, HEIGHT_e + 1},
                               food = Point(c[1] - 1, c[2] - 1),
                               snake_e[0] = Point(c[1] - 1, c[2] - 1),
                               \E i \in 1..(snake_length - 1) :
                                  snake_e[i] = Point(c[1] - 1, c[2] - 1))
    ]_vars

\* snakegamee.c has written the frame of a collision: the head lies on another
\* segment and its cell shows the head.
C18_Witness ==
  /\ variant = "wrap" /\ pc = "cleanup" /\ tick_result = "collided"
  /\ \E i \in 1..(snake_length - 1) : snake_e[i] = snake_e[0]
  /\ screen # <<>>
  /\ screen[1].cells[<<snake_e[0].x + 1, snake_e[0].y + 1>>] = "O"

\* The score and the interval as the claimed functions of the length.
ScoreAndInterval ==
  /\ variant = "walled" =>
       LET gained == snake_len - INITIAL_SNAKE_LEN
       IN /\ score = 10 * gained
          /\ speed_ms = (IF 120 - 2 * gained > 40 THEN 120 - 2 * gained ELSE 40)
          /\ speed_ms >= 40 /\ speed_ms > 0
  /\ variant = "wrap" =>
       LET gained == snake_length - 3
       IN /\ score_e = 10 * gained
          /\ speed = (IF 100 - 2 * gained > 50 THEN 100 - 2 * gained ELSE 50)
          /\ speed >= 50 /\ speed > 0

\* C19: in both programs, in every state, the score is 10 times the segments
\* gained (over the initial 4 in snakegame.c, 3 in snakegamee.c) and the tick
\* interval is max(floor, base - 2 * segments gained), base/floor 120/40 in
\* snakegame.c and 100/50 in snakegamee.c; the interval never rises, never
\* drops below its floor and stays positive.
C19_ScoreAndInterval ==
  [][/\ ScoreAndInterval /\ ScoreAndInterval'
     /\ speed_ms' <= speed_ms /\ speed' <= speed
    ]_vars

\* snakegame.c is at the floor of its interval and has grown on since.
C19_Witness ==
  /\ variant = "walled"
  /\ speed_ms = 40 /\ snake_len > INITIAL_SNAKE_LEN + 40
  /\ score = 10 * (snake_len - INITIAL_SNAKE_LEN)

\* C20: in snakegame.c, whenever update_logic executes the body shift, which
\* writes snake[0..snake_len], snake_len is below MAX_SNAKE = WIDTH * HEIGHT,
\* so every index written lies in 0..MAX_SNAKE-1, and snake_len stays within
\* INITIAL_SNAKE_LEN..MAX_SNAKE.
C20_ShiftInBounds ==
  [][WalledTick =>
       LET next == next_head(snake[0], dir)
           shifts == ~(wall_collision(next) \/ self_collision(snake, snake_len, next))
       IN /\ shifts => /\ snake_len < MAX_SNAKE
                       /\ \A i \in 0..snake_len : i \in DOMAIN snake
                       /\ pc' # "undefined"
          /\ snake_len \in INITIAL_SNAKE_LEN..MAX_SNAKE
          /\ snake_len' \in INITIAL_SNAKE_LEN..MAX_SNAKE
    ]_vars

\* update_logic has shifted a body of MAX_SNAKE - 1 segments onto the orb: the
\* shift wrote the last element of the array and snake_len is MAX_SNAKE.
C20_Witness ==
  /\ variant = "walled" /\ pc = "place_orb"
  /\ snake_len = MAX_SNAKE /\ score = 10 * (MAX_SNAKE - INITIAL_SNAKE_LEN)
  /\ {snake[i] : i \in 0..(MAX_SNAKE - 1)} = Grid

====
